---- MODULE Spec2Model ----
(***************************************************************************)
(* A model of the algeo crate: the Bezier curve container, De Casteljau    *)
(* evaluation, subdivision, derivative and arc-length bounds, the small    *)
(* polynomial algebra, cubic parametrization / implicitization, and the    *)
(* cubic-cubic intersection pipeline.                                      *)
(*                                                                         *)
(* The scalar type S of the crate is modelled by exact rationals <<n, d>>  *)
(* in lowest terms (d > 0): the properties below are the ones that hold in *)
(* exact arithmetic.  Points and vectors are pairs <<x, y>> of scalars.    *)
(* Curves are sequences; the code's index i is the sequence index i + 1.   *)
(***************************************************************************)
EXTENDS Integers, Sequences, FiniteSets, TLC

VARIABLES op, points, t, points_b, polys, roots, result

vars == <<op, points, t, points_b, polys, roots, result>>

(***************************************************************************)
(* Bounds of the model.                                                    *)
(***************************************************************************)
\* Control point coordinates of the generic curve algebra range over 0..MaxCoord.
MaxCoord == 1
\* Curve parameters range over the grid k / TDen, k in -1..TDen + 1.
TDen == 2
\* The largest control point count the container is implemented for.
MaxCount == 6

(***************************************************************************)
(* Scalars: exact rational arithmetic.                                     *)
(***************************************************************************)
Abs(x) == IF x < 0 THEN -x ELSE x

RECURSIVE gcd(_, _)
gcd(a, b) == IF b = 0 THEN a ELSE gcd(b, a % b)

\* The rational n / d (d # 0) in lowest terms with a positive denominator.
Rat(n, d) ==
    LET g == gcd(Abs(n), Abs(d))
        sg == IF d < 0 THEN -1 ELSE 1
    IN  <<sg * (n \div g), Abs(d) \div g>>

\* S::from(k) of an integer k.
R(k) == <<k, 1>>

s_zero == R(0)

s_add(a, b) ==
    LET g == gcd(a[2], b[2])
    IN  Rat(a[1] * (b[2] \div g) + b[1] * (a[2] \div g), (a[2] \div g) * b[2])

s_neg(a) == <<-a[1], a[2]>>

s_sub(a, b) == s_add(a, s_neg(b))

s_mul(a, b) ==
    LET g1 == gcd(Abs(a[1]), b[2])
        g2 == gcd(Abs(b[1]), a[2])
    IN  <<(a[1] \div g1) * (b[1] \div g2), (a[2] \div g2) * (b[2] \div g1)>>

s_le(a, b) == a[1] * b[2] <= b[1] * a[2]

(***************************************************************************)
(* Points and vectors (cgmath Point2 / Vector2).                           *)
(***************************************************************************)
\* point - point = vector
p_sub(p, q) == <<s_sub(p[1], q[1]), s_sub(p[2], q[2])>>

\* vector * scalar = vector
v_mul(v, s) == <<s_mul(v[1], s), s_mul(v[2], s)>>

\* point + vector = point
p_add(p, v) == <<s_add(p[1], v[1]), s_add(p[2], v[2])>>

(***************************************************************************)
(* The curve container: BezierCurve<T> for [T; N].                         *)
(***************************************************************************)
count(c) == Len(c)

\* &self[i]: a slice index, which panics when i is out of bounds.
get_panics(c, i) == ~(i < Len(c))

get(c, i) == c[i + 1]

\* [T; 0]::set has an empty body; [T; N]::set is self[i] = v.
set_panics(c, i) == IF Len(c) = 0 THEN FALSE ELSE ~(i < Len(c))

set(c, i, v) == IF Len(c) = 0 THEN c ELSE [c EXCEPT ![i + 1] = v]

clone(c) == c

\* res = [self[0]; N - 1]; res[i] = self[i] for i in 1..N-1
reduced(c) ==
    IF Len(c) = 0 THEN <<>>
    ELSE [i \in 1..(Len(c) - 1) |-> IF i = 1 THEN c[1] ELSE c[i]]

(***************************************************************************)
(* Arrays in memory.  A heap is a sequence of arrays and a handle is an    *)
(* index into it: the place a binding or a reference denotes.  [T; N] is   *)
(* Copy, so clone (a copy of self) and reduced (a new array res) put their *)
(* value in a place of its own.                                            *)
(***************************************************************************)
\* A mutant of clone_array: the clone shares the place of the original.
clone_array_shared(heap, h) == <<heap, h>>

\* let c = l.clone(): the heap with the new array, and the handle of c.
clone_array(heap, h) == <<Append(heap, clone(heap[h])), Len(heap) + 1>>

\* let r = l.reduced()
reduced_array(heap, h) == <<Append(heap, reduced(heap[h])), Len(heap) + 1>>

\* l.set(i, v) through the handle h
set_array(heap, h, i, v) == [heap EXCEPT ![h] = set(@, i, v)]

(***************************************************************************)
(* evaluate: De Casteljau's algorithm.                                     *)
(***************************************************************************)
\* A mutant of lerp: the two control points exchanged.
lerp_swapped(c, i, tt) ==
    p_add(get(c, i + 1), v_mul(p_sub(get(c, i), get(c, i + 1)), tt))

\* p = points[i] + (points[i + 1] - points[i]) * t
lerp(c, i, tt) == p_add(get(c, i), v_mul(p_sub(get(c, i + 1), get(c, i)), tt))

\* for i in 0..new_points.count() { new_points.set(i, p) }
RECURSIVE lerp_loop(_, _, _, _)
lerp_loop(c, tt, new_points, i) ==
    IF i >= count(new_points) THEN new_points
    ELSE lerp_loop(c, tt, set(new_points, i, lerp(c, i, tt)), i + 1)

RECURSIVE evaluate(_, _)
evaluate(c, tt) ==
    IF count(c) <= 1 THEN get(c, 0)
    ELSE evaluate(lerp_loop(c, tt, reduced(c), 0), tt)

(***************************************************************************)
(* subdivide                                                               *)
(***************************************************************************)
\* A mutant of de_casteljau: the right curve filled in forward order.
RECURSIVE de_casteljau_forward(_, _, _, _)
de_casteljau_forward(c, tt, points_a, points_bb) ==
    LET index == count(points_a) - count(c)
        a1 == set(points_a, index, get(c, 0))
        b1 == set(points_bb, index, get(c, count(c) - 1))
    IN  IF count(c) > 1
        THEN de_casteljau_forward(lerp_loop(c, tt, reduced(c), 0), tt, a1, b1)
        ELSE <<a1, b1>>

RECURSIVE de_casteljau(_, _, _, _)
de_casteljau(c, tt, points_a, points_bb) ==
    LET index == count(points_a) - count(c)
        a1 == set(points_a, index, get(c, 0))
        b1 == set(points_bb, count(points_bb) - index - 1, get(c, count(c) - 1))
    IN  IF count(c) > 1
        THEN de_casteljau(lerp_loop(c, tt, reduced(c), 0), tt, a1, b1)
        ELSE <<a1, b1>>

subdivide(c, tt) == de_casteljau(c, tt, clone(c), clone(c))

\* A mutant of de_casteljau_call: the right curve filled in forward order.
de_casteljau_call_forward(c, tt, points_a, points_bb) ==
    LET index == count(points_a) - count(c)
    IN  [a_index |-> index,
         b_index |-> index,
         a |-> set(points_a, index, get(c, 0)),
         b |-> set(points_bb, index, get(c, count(c) - 1)),
         recurses |-> count(c) > 1,
         new_points |-> IF count(c) > 1 THEN lerp_loop(c, tt, reduced(c), 0) ELSE c]

\* One call of de_casteljau: the write to points_a, the write to points_b
\* and, when the level has more than one point, the level it recurses on.
de_casteljau_call(c, tt, points_a, points_bb) ==
    LET index == count(points_a) - count(c)
    IN  [a_index |-> index,
         b_index |-> count(points_bb) - index - 1,
         a |-> set(points_a, index, get(c, 0)),
         b |-> set(points_bb, count(points_bb) - index - 1, get(c, count(c) - 1)),
         recurses |-> count(c) > 1,
         new_points |-> IF count(c) > 1 THEN lerp_loop(c, tt, reduced(c), 0) ELSE c]

(***************************************************************************)
(* derive                                                                  *)
(***************************************************************************)
\* DerivativeSpace::from_integral for Point2 -> Vector2: this.to_vec()
to_vec(p) == p

\* from_integral for [U; N]: element-wise
from_integral(c) == [i \in 1..Len(c) |-> to_vec(c[i])]

\* for i in 0..(points.count() - 1) { derivative.set(i, (p[i+1] - p[i]) * n) }
RECURSIVE derive_loop(_, _, _, _)
derive_loop(c, n, derivative, i) ==
    IF i >= count(c) - 1 THEN derivative
    ELSE derive_loop(c, n,
                     set(derivative, i, v_mul(p_sub(get(c, i + 1), get(c, i)), n)),
                     i + 1)

\* A mutant of derive: scaled by the point count instead of the degree.
derive_count_scaled(c) == derive_loop(c, R(count(c)), from_integral(reduced(c)), 0)

derive(c) == derive_loop(c, R(count(c) - 1), from_integral(reduced(c)), 0)

(***************************************************************************)
(* evaluate, subdivide and derive on arrays in memory: what each call      *)
(* does to the heap.  Each returns the heap it leaves and its value.       *)
(***************************************************************************)
\* for i in 0..new_points.count() { new_points.set(i, p) }, new_points at n
RECURSIVE lerp_loop_in(_, _, _, _, _)
lerp_loop_in(heap, h, tt, n, i) ==
    IF i >= count(heap[n]) THEN heap
    ELSE lerp_loop_in(set_array(heap, n, i, lerp(heap[h], i, tt)), h, tt, n, i + 1)

RECURSIVE evaluate_in(_, _, _)
evaluate_in(heap, h, tt) ==
    IF count(heap[h]) <= 1 THEN <<heap, get(heap[h], 0)>>
    ELSE LET r == reduced_array(heap, h)
         IN  evaluate_in(lerp_loop_in(r[1], h, tt, r[2], 0), r[2], tt)

RECURSIVE de_casteljau_in(_, _, _, _, _)
de_casteljau_in(heap, h, tt, a, b) ==
    LET index == count(heap[a]) - count(heap[h])
        h1 == set_array(heap, a, index, get(heap[h], 0))
        h2 == set_array(h1, b, count(h1[b]) - index - 1, get(h1[h], count(h1[h]) - 1))
    IN  IF count(h2[h]) > 1
        THEN LET r == reduced_array(h2, h)
             IN  de_casteljau_in(lerp_loop_in(r[1], h, tt, r[2], 0), r[2], tt, a, b)
        ELSE h2

subdivide_in(heap, h, tt) ==
    LET ca == clone_array(heap, h)
        cb == clone_array(ca[1], h)
        done == de_casteljau_in(cb[1], h, tt, ca[2], cb[2])
    IN  <<done, <<done[ca[2]], done[cb[2]]>>>>

\* for i in 0..(points.count() - 1) { derivative.set(i, ...) }, derivative at d
RECURSIVE derive_loop_in(_, _, _, _, _)
derive_loop_in(heap, h, n, d, i) ==
    IF i >= count(heap[h]) - 1 THEN heap
    ELSE derive_loop_in(
             set_array(heap, d, i, v_mul(p_sub(get(heap[h], i + 1), get(heap[h], i)), n)),
             h, n, d, i + 1)

\* R::from_integral(points.reduced()) makes the array derivative
derive_in(heap, h) ==
    LET r == reduced_array(heap, h)
        d == Len(r[1]) + 1
        h1 == Append(r[1], from_integral(r[1][r[2]]))
        done == derive_loop_in(h1, h, R(count(heap[h]) - 1), d, 0)
    IN  <<done, done[d]>>

(***************************************************************************)
(* The polynomial algebra (polynomial.rs).                                 *)
(***************************************************************************)
Poly1x2d(k, x, y) == [k |-> k, x |-> x, y |-> y]

add1(a, b) == [k |-> s_add(a.k, b.k), x |-> s_add(a.x, b.x), y |-> s_add(a.y, b.y)]

sub1(a, b) == [k |-> s_sub(a.k, b.k), x |-> s_sub(a.x, b.x), y |-> s_sub(a.y, b.y)]

\* Poly1x2d * S
scale1(a, r) == [k |-> s_mul(a.k, r), x |-> s_mul(a.x, r), y |-> s_mul(a.y, r)]

\* Poly1x2d * Poly1x2d -> Poly2x2d
mul11(a, b) ==
    [k  |-> s_mul(a.k, b.k),
     x  |-> s_add(s_mul(a.k, b.x), s_mul(a.x, b.k)),
     y  |-> s_add(s_mul(a.k, b.y), s_mul(a.y, b.k)),
     xx |-> s_mul(a.x, b.x),
     xy |-> s_add(s_mul(a.x, b.y), s_mul(a.y, b.x)),
     yy |-> s_mul(a.y, b.y)]

\* A mutant of mul12: the xxy coefficient without its rhs.xy * x term.
mul12_short_xxy(a, rhs) ==
    [k   |-> s_mul(rhs.k, a.k),
     x   |-> s_add(s_mul(rhs.k, a.x), s_mul(rhs.x, a.k)),
     y   |-> s_add(s_mul(rhs.k, a.y), s_mul(rhs.y, a.k)),
     xx  |-> s_add(s_mul(rhs.x, a.x), s_mul(rhs.xx, a.k)),
     xy  |-> s_add(s_add(s_mul(rhs.x, a.y), s_mul(rhs.y, a.x)), s_mul(rhs.xy, a.k)),
     yy  |-> s_add(s_mul(rhs.y, a.y), s_mul(rhs.yy, a.k)),
     xxy |-> s_mul(rhs.xx, a.y),
     xyy |-> s_add(s_mul(rhs.xy, a.y), s_mul(rhs.yy, a.x)),
     xxx |-> s_mul(rhs.xx, a.x),
     yyy |-> s_mul(rhs.yy, a.y)]

\* Poly1x2d * Poly2x2d -> Poly3x2d
mul12(a, rhs) ==
    [k   |-> s_mul(rhs.k, a.k),
     x   |-> s_add(s_mul(rhs.k, a.x), s_mul(rhs.x, a.k)),
     y   |-> s_add(s_mul(rhs.k, a.y), s_mul(rhs.y, a.k)),
     xx  |-> s_add(s_mul(rhs.x, a.x), s_mul(rhs.xx, a.k)),
     xy  |-> s_add(s_add(s_mul(rhs.x, a.y), s_mul(rhs.y, a.x)), s_mul(rhs.xy, a.k)),
     yy  |-> s_add(s_mul(rhs.y, a.y), s_mul(rhs.yy, a.k)),
     xxy |-> s_add(s_mul(rhs.xx, a.y), s_mul(rhs.xy, a.x)),
     xyy |-> s_add(s_mul(rhs.xy, a.y), s_mul(rhs.yy, a.x)),
     xxx |-> s_mul(rhs.xx, a.x),
     yyy |-> s_mul(rhs.yy, a.y)]

add2(a, b) ==
    [k  |-> s_add(a.k, b.k),   x  |-> s_add(a.x, b.x),   y  |-> s_add(a.y, b.y),
     xx |-> s_add(a.xx, b.xx), xy |-> s_add(a.xy, b.xy), yy |-> s_add(a.yy, b.yy)]

sub2(a, b) ==
    [k  |-> s_sub(a.k, b.k),   x  |-> s_sub(a.x, b.x),   y  |-> s_sub(a.y, b.y),
     xx |-> s_sub(a.xx, b.xx), xy |-> s_sub(a.xy, b.xy), yy |-> s_sub(a.yy, b.yy)]

add3(a, b) ==
    [k   |-> s_add(a.k, b.k),     x   |-> s_add(a.x, b.x),
     y   |-> s_add(a.y, b.y),     xx  |-> s_add(a.xx, b.xx),
     xy  |-> s_add(a.xy, b.xy),   yy  |-> s_add(a.yy, b.yy),
     xxy |-> s_add(a.xxy, b.xxy), xyy |-> s_add(a.xyy, b.xyy),
     xxx |-> s_add(a.xxx, b.xxx), yyy |-> s_add(a.yyy, b.yyy)]

sub3(a, b) ==
    [k   |-> s_sub(a.k, b.k),     x   |-> s_sub(a.x, b.x),
     y   |-> s_sub(a.y, b.y),     xx  |-> s_sub(a.xx, b.xx),
     xy  |-> s_sub(a.xy, b.xy),   yy  |-> s_sub(a.yy, b.yy),
     xxy |-> s_sub(a.xxy, b.xxy), xyy |-> s_sub(a.xyy, b.xyy),
     xxx |-> s_sub(a.xxx, b.xxx), yyy |-> s_sub(a.yyy, b.yyy)]

\* Poly3::eval
eval3(p, x) ==
    s_add(s_add(s_add(p.k, s_mul(p.x, x)), s_mul(s_mul(p.xx, x), x)),
          s_mul(s_mul(s_mul(p.xxx, x), x), x))

\* A mutant of as_slice: the fields in the opposite order.
as_slice_reversed(p) == <<p.xxx, p.xx, p.x, p.k>>

\* Poly3::as_slice: the repr(C) struct read as [S; 4], fields in declaration order
as_slice(p) == <<p.k, p.x, p.xx, p.xxx>>

\* Poly3x2d::eval
eval3x2d(p, x, y) ==
    LET m2(c, a, b) == s_mul(s_mul(c, a), b)
        m3(c, a, b, d) == s_mul(s_mul(s_mul(c, a), b), d)
    IN  s_add(s_add(s_add(s_add(s_add(s_add(s_add(s_add(s_add(
            p.k,
            s_mul(p.x, x)),
            s_mul(p.y, y)),
            m2(p.xx, x, x)),
            m2(p.xy, x, y)),
            m2(p.yy, y, y)),
            m3(p.xxy, x, x, y)),
            m3(p.xyy, x, y, y)),
            m3(p.xxx, x, x, x)),
            m3(p.yyy, y, y, y))

\* The closure add_fac of subst: grow out to deg + 1 entries, then out[deg] += a
add_fac(out, deg, a) ==
    LET o == IF Len(out) < deg + 1
             THEN out \o [i \in 1..(deg + 1 - Len(out)) |-> s_zero]
             ELSE out
    IN  [o EXCEPT ![deg + 1] = s_add(o[deg + 1], a)]

\* In the loops below out is never empty (it starts as vec![self.k]); the test
\* Len(out) = 0 only makes each step evaluate the list built so far.
\* An innermost loop of subst: for (deg3, vc) in v { add_fac(d + deg3, c * vc) }
RECURSIVE subst_inner(_, _, _, _, _)
subst_inner(out, c, v, d, i) ==
    IF i >= Len(v) \/ Len(out) = 0 THEN out
    ELSE subst_inner(add_fac(out, d + i, s_mul(c, v[i + 1])), c, v, d, i + 1)

\* The middle loop of the pure-power part, for a fixed (deg, va)
RECURSIVE subst_pure2(_, _, _, _, _, _, _)
subst_pure2(out, c2, c3, v, deg, va, i) ==
    IF i >= Len(v) \/ Len(out) = 0 THEN out
    ELSE LET vb == v[i + 1]
             o1 == add_fac(out, deg + i, s_mul(s_mul(c2, va), vb))
             o2 == subst_inner(o1, s_mul(s_mul(c3, va), vb), v, deg + i, 0)
         IN  subst_pure2(o2, c2, c3, v, deg, va, i + 1)

\* The pure-power part of subst for one variable: coefficients c1, c2, c3 of
\* v, v^2, v^3 and the substituted coefficient list v
RECURSIVE subst_pure(_, _, _, _, _, _)
subst_pure(out, c1, c2, c3, v, i) ==
    IF i >= Len(v) \/ Len(out) = 0 THEN out
    ELSE LET va == v[i + 1]
             o1 == add_fac(out, i, s_mul(c1, va))
             o2 == subst_pure2(o1, c2, c3, v, i, va, 0)
         IN  subst_pure(o2, c1, c2, c3, v, i + 1)

\* A mutant of subst_mixed2: the x y^2 loop runs over x a second time.
RECURSIVE subst_mixed2_xx(_, _, _, _, _, _, _)
subst_mixed2_xx(out, p, x, y, deg, xa, i) ==
    IF i >= Len(y) \/ Len(out) = 0 THEN out
    ELSE LET ya == y[i + 1]
             o1 == add_fac(out, deg + i, s_mul(s_mul(p.xy, xa), ya))
             o2 == subst_inner(o1, s_mul(s_mul(p.xxy, xa), ya), x, deg + i, 0)
             o3 == subst_inner(o2, s_mul(s_mul(p.xyy, xa), ya), x, deg + i, 0)
         IN  subst_mixed2_xx(o3, p, x, y, deg, xa, i + 1)

\* The mixed part of subst, inner loop over y for a fixed (deg, xa)
RECURSIVE subst_mixed2(_, _, _, _, _, _, _)
subst_mixed2(out, p, x, y, deg, xa, i) ==
    IF i >= Len(y) \/ Len(out) = 0 THEN out
    ELSE LET ya == y[i + 1]
             o1 == add_fac(out, deg + i, s_mul(s_mul(p.xy, xa), ya))
             o2 == subst_inner(o1, s_mul(s_mul(p.xxy, xa), ya), x, deg + i, 0)
             o3 == subst_inner(o2, s_mul(s_mul(p.xyy, xa), ya), y, deg + i, 0)
         IN  subst_mixed2(o3, p, x, y, deg, xa, i + 1)

RECURSIVE subst_mixed(_, _, _, _, _)
subst_mixed(out, p, x, y, i) ==
    IF i >= Len(x) \/ Len(out) = 0 THEN out
    ELSE subst_mixed(subst_mixed2(out, p, x, y, i, x[i + 1], 0), p, x, y, i + 1)

\* Poly3x2d::subst
subst(p, x, y) ==
    LET o1 == subst_pure(<<p.k>>, p.x, p.xx, p.xxx, x, 0)
        o2 == subst_pure(o1, p.y, p.yy, p.yyy, y, 0)
    IN  subst_mixed(o2, p, x, y, 0)

(***************************************************************************)
(* hull_arclen_bounds                                                      *)
(***************************************************************************)
\* The exact square root of a perfect square (the inputs of the arc-length
\* model are chosen so that every distance is an integer).
isqrt(n) == CHOOSE r \in 0..n : r * r = n

s_sqrt(a) == <<isqrt(a[1]), isqrt(a[2])>>

\* cgmath MetricSpace::distance for Point2: sqrt((q - p) . (q - p))
distance(p, q) ==
    LET v == p_sub(q, p)
    IN  s_sqrt(s_add(s_mul(v[1], v[1]), s_mul(v[2], v[2])))

\* for i in 0..(points.count() - 1) { upper += distance(p[i], p[i + 1]) }
RECURSIVE arclen_loop(_, _, _)
arclen_loop(c, upper, i) ==
    IF i >= count(c) - 1 THEN upper
    ELSE arclen_loop(c, s_add(upper, distance(get(c, i), get(c, i + 1))), i + 1)

\* A mutant of hull_arclen_bounds: the first segment left out of the sum.
hull_arclen_bounds_skip_first(c) ==
    <<distance(get(c, 0), get(c, count(c) - 1)), arclen_loop(c, s_zero, 1)>>

hull_arclen_bounds(c) ==
    <<distance(get(c, 0), get(c, count(c) - 1)), arclen_loop(c, s_zero, 0)>>

(***************************************************************************)
(* parametric_cubic                                                        *)
(***************************************************************************)
Poly3(k, x, xx, xxx) == [k |-> k, x |-> x, xx |-> xx, xxx |-> xxx]

\* A mutant of parametric_axis: the quadratic coefficient with 3 b for 6 b.
parametric_axis_n3(a, b, c, d) ==
    LET n3 == R(3)
        ttt == s_add(s_sub(s_add(s_neg(a), s_mul(n3, b)), s_mul(n3, c)), d)
        tt == s_add(s_sub(s_mul(n3, a), s_mul(n3, b)), s_mul(n3, c))
        t1 == s_add(s_mul(s_neg(n3), a), s_mul(n3, b))
    IN  Poly3(a, t1, tt, ttt)

\* One axis of parametric_cubic: a, b, c, d are that coordinate of the four
\* control points.
parametric_axis(a, b, c, d) ==
    LET n3 == R(3)
        n6 == R(6)
        ttt == s_add(s_sub(s_add(s_neg(a), s_mul(n3, b)), s_mul(n3, c)), d)
        tt == s_add(s_sub(s_mul(n3, a), s_mul(n6, b)), s_mul(n3, c))
        t1 == s_add(s_mul(s_neg(n3), a), s_mul(n3, b))
    IN  Poly3(a, t1, tt, ttt)

parametric_cubic(curve) ==
    <<parametric_axis(curve[1][1], curve[2][1], curve[3][1], curve[4][1]),
      parametric_axis(curve[1][2], curve[2][2], curve[3][2], curve[4][2])>>

(***************************************************************************)
(* implicit_cubic                                                          *)
(***************************************************************************)
impl_l_det(pi, pj) ==
    LET a == Poly1x2d(s_zero, s_sub(pi[2], pj[2]), s_zero)
        b == Poly1x2d(s_zero, s_zero, s_sub(pi[1], pj[1]))
        c == Poly1x2d(s_sub(s_mul(pi[1], pj[2]), s_mul(pj[1], pi[2])), s_zero, s_zero)
    IN  add1(sub1(a, b), c)

\* (1..=k).map(|i| (n + 1 - i) / i).product()
RECURSIVE binom_product(_, _, _)
binom_product(n, k, i) ==
    IF i > k THEN R(1) ELSE s_mul(Rat(n + 1 - i, i), binom_product(n, k, i + 1))

binom(n, k) == binom_product(n, k, 1)

\* i and j are the code's 0-based indices
impl_l(curve, i, j) ==
    LET det == impl_l_det(curve[i + 1], curve[j + 1])
        n == Len(curve) - 1
    IN  scale1(det, s_mul(binom(n, i), binom(n, j)))

\* A mutant of expand_det3: the middle cofactor added instead of subtracted.
expand_det3_plus(m) ==
    LET a == mul12(m[1][1], sub2(mul11(m[2][2], m[3][3]), mul11(m[3][2], m[2][3])))
        b == mul12(m[1][2], sub2(mul11(m[2][1], m[3][3]), mul11(m[3][1], m[2][3])))
        c == mul12(m[1][3], sub2(mul11(m[2][1], m[3][2]), mul11(m[3][1], m[2][2])))
    IN  add3(add3(a, b), c)

\* matrix is row major; matrix[r][c] of the code is m[r + 1][c + 1]
expand_det3(m) ==
    LET a == mul12(m[1][1], sub2(mul11(m[2][2], m[3][3]), mul11(m[3][2], m[2][3])))
        b == mul12(m[1][2], sub2(mul11(m[2][1], m[3][3]), mul11(m[3][1], m[2][3])))
        c == mul12(m[1][3], sub2(mul11(m[2][1], m[3][2]), mul11(m[3][1], m[2][2])))
    IN  add3(sub3(a, b), c)

implicit_cubic(curve) ==
    LET l32 == impl_l(curve, 3, 2)
        l31 == impl_l(curve, 3, 1)
        l30 == impl_l(curve, 3, 0)
        l21 == impl_l(curve, 2, 1)
        l20 == impl_l(curve, 2, 0)
        l10 == impl_l(curve, 1, 0)
    IN  expand_det3(<<<<l32, l31, l30>>, <<l31, add1(l30, l21), l20>>, <<l30, l20, l10>>>>)

(***************************************************************************)
(* intersect_cubic                                                         *)
(***************************************************************************)
\* A mutant of intersect_polynomial: the roles of the two curves exchanged.
intersect_polynomial_swapped(a, b) ==
    LET a_implicit == implicit_cubic(a)
        pb == parametric_cubic(b)
    IN  subst(a_implicit, as_slice(pb[1]), as_slice(pb[2]))

\* The coefficient list handed to roots::find_roots_eigen
intersect_polynomial(a, b) ==
    LET b_implicit == implicit_cubic(b)
        pa == parametric_cubic(a)
    IN  subst(b_implicit, as_slice(pa[1]), as_slice(pa[2]))

\* A mutant of root_in_range: the end points excluded.
root_in_range_strict(r) == ~s_le(r, R(0)) /\ ~s_le(R(1), r)

\* .filter(|t| *t >= 0. && *t <= 1.)
root_in_range(r) == s_le(R(0), r) /\ s_le(r, R(1))

\* The items the returned iterator yields, given the root finder's output rts
intersect_cubic(a, b, rts) ==
    LET kept == SelectSeq(rts, root_in_range)
    IN  [i \in 1..Len(kept) |-> <<kept[i], evaluate(a, kept[i])>>]

(***************************************************************************)
(* Parameter values shared by the specifications: the grid k / TDen from   *)
(* one step below 0 to one step above 1 (evaluate puts no bound on t).     *)
(***************************************************************************)
TVals == {Rat(k, TDen) : k \in (-1)..(TDen + 1)}

NoCurve == <<>>

(***************************************************************************)
(* Spec: the generic curve algebra (evaluate, subdivide, derive) on curves *)
(* of 1..MaxCount control points.                                          *)
(***************************************************************************)
PointVals == {<<R(k), R(MaxCoord - k)>> : k \in 0..MaxCoord}

Curves == UNION {[1..n -> PointVals] : n \in 1..MaxCount}

Init ==
    /\ op = "none"
    /\ points \in Curves
    /\ t \in TVals
    /\ points_b = NoCurve
    /\ polys = <<>>
    /\ roots = <<>>
    /\ result = <<>>

Evaluate ==
    /\ op = "none"
    /\ op' = "evaluate"
    /\ result' = evaluate(points, t)
    /\ UNCHANGED <<points, t, points_b, polys, roots>>

Subdivide ==
    /\ op = "none"
    /\ op' = "subdivide"
    /\ result' = subdivide(points, t)
    /\ UNCHANGED <<points, t, points_b, polys, roots>>

Derive ==
    /\ op = "none"
    /\ op' = "derive"
    /\ result' = derive(points)
    /\ UNCHANGED <<points, t, points_b, polys, roots>>

Next == Evaluate \/ Subdivide \/ Derive

Spec == Init /\ [][Next]_vars

(***************************************************************************)
(* SpecArclen: hull_arclen_bounds on curves whose control points lie on a  *)
(* 6 x 8 rectangle and its centre, so that every distance is an integer.   *)
(***************************************************************************)
ArcPoints ==
    {<<R(0), R(0)>>, <<R(6), R(0)>>, <<R(0), R(8)>>, <<R(6), R(8)>>, <<R(3), R(4)>>}

ArcCurves == UNION {[1..n -> ArcPoints] : n \in 1..MaxCount}

InitArclen ==
    /\ op = "none"
    /\ points \in ArcCurves
    /\ t = s_zero
    /\ points_b = NoCurve
    /\ polys = <<>>
    /\ roots = <<>>
    /\ result = <<>>

HullArclenBounds ==
    /\ op = "none"
    /\ op' = "hull_arclen_bounds"
    /\ result' = hull_arclen_bounds(points)
    /\ UNCHANGED <<points, t, points_b, polys, roots>>

NextArclen == HullArclenBounds

SpecArclen == InitArclen /\ [][NextArclen]_vars

(***************************************************************************)
(* SpecContainer: get and set on a curve container of 0..MaxCount          *)
(* elements.  A panic ends the run.                                        *)
(***************************************************************************)
\* Container elements range over 0..MaxElem.
MaxElem == 1

Containers == UNION {[1..n -> 0..MaxElem] : n \in 0..MaxCount}

\* What the last call was and how it ended: before is the container as the
\* call found it.
Call(name, i, v, before, value, panicked) ==
    [call |-> name, i |-> i, v |-> v, before |-> before, value |-> value,
     panicked |-> panicked]

InitContainer ==
    /\ op = "none"
    /\ points \in Containers
    /\ t = s_zero
    /\ points_b = NoCurve
    /\ polys = <<>>
    /\ roots = <<>>
    /\ result = Call("none", 0, 0, points, 0, FALSE)

Get(i) ==
    /\ op # "panic"
    /\ IF get_panics(points, i)
       THEN /\ op' = "panic"
            /\ result' = Call("get", i, 0, points, 0, TRUE)
       ELSE /\ op' = "get"
            /\ result' = Call("get", i, 0, points, get(points, i), FALSE)
    /\ UNCHANGED <<points, t, points_b, polys, roots>>

Set(i, v) ==
    /\ op # "panic"
    /\ IF set_panics(points, i)
       THEN /\ op' = "panic"
            /\ result' = Call("set", i, v, points, 0, TRUE)
            /\ UNCHANGED points
       ELSE /\ op' = "set"
            /\ result' = Call("set", i, v, points, 0, FALSE)
            /\ points' = set(points, i, v)
    /\ UNCHANGED <<t, points_b, polys, roots>>

NextContainer ==
    \/ \E i \in 0..MaxCount : Get(i)
    \/ \E i \in 0..MaxCount, v \in 0..MaxElem : Set(i, v)

SpecContainer == InitContainer /\ [][NextContainer]_vars

(***************************************************************************)
(* SpecCubic: parametric_cubic and implicit_cubic on planar cubics with    *)
(* control points on the grid (0..MaxCoord) x (0..MaxCoord).               *)
(***************************************************************************)
GridPoints == {<<R(x), R(y)>> : x \in 0..MaxCoord, y \in 0..MaxCoord}

Cubics == [1..4 -> GridPoints]

InitCubic ==
    /\ op = "none"
    /\ points \in Cubics
    /\ t = s_zero
    /\ points_b = NoCurve
    /\ polys = <<>>
    /\ roots = <<>>
    /\ result = <<>>

Parametrize ==
    /\ op = "none"
    /\ op' = "parametric_cubic"
    /\ result' = parametric_cubic(points)
    /\ UNCHANGED <<points, t, points_b, polys, roots>>

Implicitize ==
    /\ op = "none"
    /\ op' = "implicit_cubic"
    /\ result' = implicit_cubic(points)
    /\ UNCHANGED <<points, t, points_b, polys, roots>>

NextCubic == Parametrize \/ Implicitize

SpecCubic == InitCubic /\ [][NextCubic]_vars

(***************************************************************************)
(* SpecIntersect: intersect_cubic(a, b).  The root finder is an external   *)
(* crate: its output is any sequence of at most MaxRoots values of TVals.  *)
(***************************************************************************)
MaxRoots == 3

Pt(x, y) == <<R(x), R(y)>>

SampleCubics ==
    {<<Pt(0, 0), Pt(1, 2), Pt(2, 2), Pt(3, 0)>>,
     <<Pt(0, 2), Pt(1, 0), Pt(2, 0), Pt(3, 2)>>,
     <<Pt(0, 2), Pt(2, 0), Pt(1, 0), Pt(3, 2)>>}

RootSeqs == UNION {[1..n -> TVals] : n \in 0..MaxRoots}

InitIntersect ==
    /\ op = "none"
    /\ points \in SampleCubics
    /\ t = s_zero
    /\ points_b \in SampleCubics
    /\ polys = <<>>
    /\ roots = <<>>
    /\ result = <<>>

Intersect ==
    /\ op = "none"
    /\ op' = "intersect_cubic"
    /\ polys' = intersect_polynomial(points, points_b)
    /\ \E rts \in RootSeqs :
           /\ roots' = rts
           /\ result' = intersect_cubic(points, points_b, rts)
    /\ UNCHANGED <<points, t, points_b>>

NextIntersect == Intersect

SpecIntersect == InitIntersect /\ [][NextIntersect]_vars

(***************************************************************************)
(* SpecPoly: the polynomial algebra on its own: substitution of two        *)
(* univariate cubics into a bivariate cubic.                               *)
(***************************************************************************)
\* Coefficients of the substituted polynomial px range over 0..MaxCoef.
MaxCoef == 1

Poly3x2d(k, x, y, xy, xx, yy, xxy, xyy, xxx, yyy) ==
    [k |-> R(k), x |-> R(x), y |-> R(y), xy |-> R(xy), xx |-> R(xx), yy |-> R(yy),
     xxy |-> R(xxy), xyy |-> R(xyy), xxx |-> R(xxx), yyy |-> R(yyy)]

PxVals ==
    {Poly3(R(a), R(b), R(c), R(d)) :
        a \in 0..MaxCoef, b \in 0..MaxCoef, c \in 0..MaxCoef, d \in 0..MaxCoef}

\* The py of test_poly3x2d_subst, the zero polynomial, and two sparse ones.
PyVals ==
    {Poly3(R(4), R(-2), R(7), R(1)), Poly3(R(0), R(0), R(0), R(0)),
     Poly3(R(0), R(0), R(0), R(-1)), Poly3(R(1), R(2), R(0), R(0))}

\* The p of test_poly3x2d_subst, the zero polynomial, and the ten monomials.
PVals ==
    {Poly3x2d(3, 2, 5, -5, -24, 3, 9, -16, -44, 1),
     Poly3x2d(0, 0, 0, 0, 0, 0, 0, 0, 0, 0),
     Poly3x2d(1, 0, 0, 0, 0, 0, 0, 0, 0, 0),
     Poly3x2d(0, 1, 0, 0, 0, 0, 0, 0, 0, 0),
     Poly3x2d(0, 0, 1, 0, 0, 0, 0, 0, 0, 0),
     Poly3x2d(0, 0, 0, 1, 0, 0, 0, 0, 0, 0),
     Poly3x2d(0, 0, 0, 0, 1, 0, 0, 0, 0, 0),
     Poly3x2d(0, 0, 0, 0, 0, 1, 0, 0, 0, 0),
     Poly3x2d(0, 0, 0, 0, 0, 0, 1, 0, 0, 0),
     Poly3x2d(0, 0, 0, 0, 0, 0, 0, 1, 0, 0),
     Poly3x2d(0, 0, 0, 0, 0, 0, 0, 0, 1, 0),
     Poly3x2d(0, 0, 0, 0, 0, 0, 0, 0, 0, 1)}

InitPoly ==
    /\ op = "none"
    /\ points = NoCurve
    /\ t = s_zero
    /\ points_b = NoCurve
    /\ polys \in [p : PVals, px : PxVals, py : PyVals]
    /\ roots = <<>>
    /\ result = <<>>

Subst ==
    /\ op = "none"
    /\ op' = "subst"
    /\ result' = subst(polys.p, as_slice(polys.px), as_slice(polys.py))
    /\ UNCHANGED <<points, t, points_b, polys, roots>>

NextPoly == Subst

SpecPoly == InitPoly /\ [][NextPoly]_vars

(***************************************************************************)
(* SpecAlgebra: the operators of the bivariate polynomial types: the two   *)
(* products and the sums and differences of each degree.                   *)
(***************************************************************************)
\* Coefficients of the left linear operand range over -MaxLin..MaxLin.
MaxLin == 1

Poly2x2d(k, x, y, xy, xx, yy) ==
    [k |-> R(k), x |-> R(x), y |-> R(y), xy |-> R(xy), xx |-> R(xx), yy |-> R(yy)]

LinVals ==
    {Poly1x2d(R(k), R(x), R(y)) :
        k \in (-MaxLin)..MaxLin, x \in (-MaxLin)..MaxLin, y \in (-MaxLin)..MaxLin}

LinRhsVals ==
    {Poly1x2d(R(1), R(2), R(-3)), Poly1x2d(R(-2), R(0), R(5)),
     Poly1x2d(R(0), R(1), R(0)), Poly1x2d(R(0), R(0), R(0))}

QuadVals == {Poly2x2d(2, -3, 5, 7, -1, 4), Poly2x2d(0, 1, 0, -2, 3, 0)}

CubVals ==
    {Poly3x2d(3, 2, 5, -5, -24, 3, 9, -16, -44, 1),
     Poly3x2d(1, -2, 0, 4, 0, -3, 5, 0, 7, -1)}

\* An operator application: the operands and the value returned.
BinOp(lhs, rhs, out) == [lhs |-> lhs, rhs |-> rhs, out |-> out]

InitAlgebra ==
    /\ op = "none"
    /\ points = NoCurve
    /\ t = s_zero
    /\ points_b = NoCurve
    /\ polys \in [a : LinVals, b : LinRhsVals]
    /\ roots = <<>>
    /\ result = <<>>

Mul11 ==
    /\ op = "none"
    /\ op' = "mul11"
    /\ result' = BinOp(polys.a, polys.b, mul11(polys.a, polys.b))
    /\ UNCHANGED <<points, t, points_b, polys, roots>>

Mul12 ==
    \E q \in QuadVals :
        /\ op = "none"
        /\ op' = "mul12"
        /\ result' = BinOp(polys.a, q, mul12(polys.a, q))
        /\ UNCHANGED <<points, t, points_b, polys, roots>>

Scale1 ==
    \E r \in TVals :
        /\ op = "none"
        /\ op' = "scale1"
        /\ result' = BinOp(polys.a, r, scale1(polys.a, r))
        /\ UNCHANGED <<points, t, points_b, polys, roots>>

Add1 ==
    /\ op = "none"
    /\ op' = "add1"
    /\ result' = BinOp(polys.a, polys.b, add1(polys.a, polys.b))
    /\ UNCHANGED <<points, t, points_b, polys, roots>>

Sub1 ==
    /\ op = "none"
    /\ op' = "sub1"
    /\ result' = BinOp(polys.a, polys.b, sub1(polys.a, polys.b))
    /\ UNCHANGED <<points, t, points_b, polys, roots>>

Add2 ==
    \E q \in QuadVals, r \in QuadVals :
        /\ op = "none"
        /\ op' = "add2"
        /\ result' = BinOp(q, r, add2(q, r))
        /\ UNCHANGED <<points, t, points_b, polys, roots>>

Sub2 ==
    \E q \in QuadVals, r \in QuadVals :
        /\ op = "none"
        /\ op' = "sub2"
        /\ result' = BinOp(q, r, sub2(q, r))
        /\ UNCHANGED <<points, t, points_b, polys, roots>>

Add3 ==
    \E c \in CubVals, d \in CubVals :
        /\ op = "none"
        /\ op' = "add3"
        /\ result' = BinOp(c, d, add3(c, d))
        /\ UNCHANGED <<points, t, points_b, polys, roots>>

Sub3 ==
    \E c \in CubVals, d \in CubVals :
        /\ op = "none"
        /\ op' = "sub3"
        /\ result' = BinOp(c, d, sub3(c, d))
        /\ UNCHANGED <<points, t, points_b, polys, roots>>

NextAlgebra ==
    \/ Mul11 \/ Mul12 \/ Scale1
    \/ Add1 \/ Sub1 \/ Add2 \/ Sub2 \/ Add3 \/ Sub3

SpecAlgebra == InitAlgebra /\ [][NextAlgebra]_vars

(***************************************************************************)
(* SpecDeCasteljau: subdivide call by call.  The state between two calls   *)
(* of de_casteljau is the level the next call receives, the two output     *)
(* curves, the number of calls made, and how often each slot of the output *)
(* curves has been written.                                                *)
(***************************************************************************)
Frame(level, a, b, calls, writes_a, writes_b) ==
    [level |-> level, a |-> a, b |-> b, calls |-> calls,
     writes_a |-> writes_a, writes_b |-> writes_b]

InitDeCasteljau ==
    /\ op = "none"
    /\ points \in Curves
    /\ t \in TVals
    /\ points_b = NoCurve
    /\ polys = <<>>
    /\ roots = <<>>
    /\ result = <<>>

\* let mut points_a = points.clone(); let mut points_b = points.clone();
\* de_casteljau(points, t, &mut points_a, &mut points_b)
SubdivideEnter ==
    /\ op = "none"
    /\ op' = "de_casteljau"
    /\ result' = Frame(points, clone(points), clone(points), 0,
                       [i \in 1..count(points) |-> 0], [i \in 1..count(points) |-> 0])
    /\ UNCHANGED <<points, t, points_b, polys, roots>>

\* One call of de_casteljau, up to its recursive call or its return.
DeCasteljauCall ==
    /\ op = "de_casteljau"
    /\ LET call == de_casteljau_call(result.level, t, result.a, result.b)
       IN  /\ op' = IF call.recurses THEN "de_casteljau" ELSE "subdivided"
           /\ result' = Frame(call.new_points, call.a, call.b, result.calls + 1,
                              [result.writes_a EXCEPT ![call.a_index + 1] = @ + 1],
                              [result.writes_b EXCEPT ![call.b_index + 1] = @ + 1])
    /\ UNCHANGED <<points, t, points_b, polys, roots>>

NextDeCasteljau == SubdivideEnter \/ DeCasteljauCall

SpecDeCasteljau == InitDeCasteljau /\ [][NextDeCasteljau]_vars

(***************************************************************************)
(* SpecValue: a curve l in memory (handle 1 of the heap kept in points).   *)
(* Either one of evaluate, subdivide, derive, hull_arclen_bounds is called *)
(* on &l, or a second curve is made from l by clone() or reduced() and     *)
(* elements of the two are set.  Arrays local to a call are gone when it   *)
(* returns.  A panic ends the run.                                         *)
(***************************************************************************)
\* Elements of l are the points (3 k, 4 k), k in 0..MaxVal: their distances
\* are integers.
MaxVal == 1

ValuePoints == {<<R(3 * k), R(4 * k)>> : k \in 0..MaxVal}

ValueCurves == UNION {[1..n -> ValuePoints] : n \in 0..MaxCount}

\* The last call: the handles of the curve it was made on and of the curve
\* it made or wrote, the heap as it found it, and the value it returned.
ValueCall(name, parent, child, before, value) ==
    [call |-> name, parent |-> parent, child |-> child, before |-> before,
     value |-> value]

InitValue ==
    /\ op = "none"
    /\ \E l \in ValueCurves : points = <<l>>
    /\ t = s_zero
    /\ points_b = NoCurve
    /\ polys = <<>>
    /\ roots = <<>>
    /\ result = ValueCall("none", 1, 1, points, <<>>)

CloneCurve ==
    /\ op = "none"
    /\ op' = "clone"
    /\ LET c == clone_array(points, 1)
       IN  /\ points' = c[1]
           /\ result' = ValueCall("clone", 1, c[2], points, <<>>)
    /\ UNCHANGED <<t, points_b, polys, roots>>

ReduceCurve ==
    /\ op = "none"
    /\ op' = "reduced"
    /\ LET r == reduced_array(points, 1)
       IN  /\ points' = r[1]
           /\ result' = ValueCall("reduced", 1, r[2], points, <<>>)
    /\ UNCHANGED <<t, points_b, polys, roots>>

\* set(i, v) on the curve at handle h, the other curve being at handle o
SetElement(h, o, i, v) ==
    /\ op \in {"clone", "reduced"}
    /\ {h, o} = {result.parent, result.child}
    /\ IF set_panics(points[h], i)
       THEN /\ op' = "panic"
            /\ result' = ValueCall("set", o, h, points, <<>>)
            /\ UNCHANGED points
       ELSE /\ op' = "set"
            /\ result' = ValueCall("set", o, h, points, <<>>)
            /\ points' = set_array(points, h, i, v)
    /\ UNCHANGED <<t, points_b, polys, roots>>

\* The calls on &l.  On the empty curve each of them panics: get(0) is out
\* of bounds, and derive computes 0 - 1 in usize.
EvaluateCurve ==
    \E tt \in TVals :
        /\ op = "none"
        /\ t' = tt
        /\ IF count(points[1]) = 0
           THEN /\ op' = "panic"
                /\ result' = ValueCall("evaluate", 1, 1, points, <<>>)
                /\ UNCHANGED points
           ELSE LET done == evaluate_in(points, 1, tt)
                IN  /\ op' = "evaluate"
                    /\ result' = ValueCall("evaluate", 1, 1, points, done[2])
                    /\ points' = SubSeq(done[1], 1, Len(points))
        /\ UNCHANGED <<points_b, polys, roots>>

SubdivideCurve ==
    \E tt \in TVals :
        /\ op = "none"
        /\ t' = tt
        /\ IF count(points[1]) = 0
           THEN /\ op' = "panic"
                /\ result' = ValueCall("subdivide", 1, 1, points, <<>>)
                /\ UNCHANGED points
           ELSE LET done == subdivide_in(points, 1, tt)
                IN  /\ op' = "subdivide"
                    /\ result' = ValueCall("subdivide", 1, 1, points, done[2])
                    /\ points' = SubSeq(done[1], 1, Len(points))
        /\ UNCHANGED <<points_b, polys, roots>>

DeriveCurve ==
    /\ op = "none"
    /\ IF count(points[1]) = 0
       THEN /\ op' = "panic"
            /\ result' = ValueCall("derive", 1, 1, points, <<>>)
            /\ UNCHANGED points
       ELSE LET done == derive_in(points, 1)
            IN  /\ op' = "derive"
                /\ result' = ValueCall("derive", 1, 1, points, done[2])
                /\ points' = SubSeq(done[1], 1, Len(points))
    /\ UNCHANGED <<t, points_b, polys, roots>>

HullArclenBoundsCurve ==
    /\ op = "none"
    /\ IF count(points[1]) = 0
       THEN /\ op' = "panic"
            /\ result' = ValueCall("hull_arclen_bounds", 1, 1, points, <<>>)
            /\ UNCHANGED points
       ELSE LET done == <<points, hull_arclen_bounds(points[1])>>
            IN  /\ op' = "hull_arclen_bounds"
                /\ result' = ValueCall("hull_arclen_bounds", 1, 1, points, done[2])
                /\ points' = SubSeq(done[1], 1, Len(points))
    /\ UNCHANGED <<t, points_b, polys, roots>>

NextValue ==
    \/ CloneCurve
    \/ ReduceCurve
    \/ \E h \in 1..2, o \in 1..2, i \in 0..MaxCount, v \in ValuePoints : SetElement(h, o, i, v)
    \/ EvaluateCurve
    \/ SubdivideCurve
    \/ DeriveCurve
    \/ HullArclenBoundsCurve

SpecValue == InitValue /\ [][NextValue]_vars

(***************************************************************************)
(* Properties.                                                             *)
(***************************************************************************)
\* The value sum_i c[i] * x^i of a coefficient list c (index = degree).
RECURSIVE eval_poly(_, _, _)
eval_poly(c, x, i) ==
    IF i > Len(c) THEN s_zero
    ELSE s_add(c[i], s_mul(x, eval_poly(c, x, i + 1)))

\* C1: subdivide(curve, t) = (left, right) reparametrizes the curve: for every
\* s, evaluate(left, s) = evaluate(curve, s*t) and
\* evaluate(right, s) = evaluate(curve, t + s*(1-t)); in particular
\* evaluate(left, 1) = evaluate(right, 0) = evaluate(curve, t).
SubdivideReparametrizes ==
    op = "subdivide" =>
        /\ \A s \in TVals :
            /\ evaluate(result[1], s) = evaluate(points, s_mul(s, t))
            /\ evaluate(result[2], s) =
                   evaluate(points, s_add(t, s_mul(s, s_sub(R(1), t))))
        /\ evaluate(result[1], R(1)) = evaluate(points, t)
        /\ evaluate(result[2], R(0)) = evaluate(points, t)

\* C1 witness: a six-point curve with distinct end points has been split at
\* t = 1/2 into two curves that both differ from it and meet at one point.
SubdivideWitness ==
    /\ op = "subdivide"
    /\ count(points) = MaxCount
    /\ t = Rat(1, 2)
    /\ get(points, 0) # get(points, MaxCount - 1)
    /\ result[1] # points
    /\ result[2] # points
    /\ get(result[1], MaxCount - 1) = get(result[2], 0)

\* C2: the bivariate cubic f = implicit_cubic(curve) vanishes on the curve:
\* f.eval(q.x, q.y) = 0 for q = evaluate(curve, t), for every t.
ImplicitVanishesOnCurve ==
    op = "implicit_cubic" =>
        \A tt \in TVals :
            LET q == evaluate(points, tt)
            IN  eval3x2d(result, q[1], q[2]) = s_zero

\* C2 witness: the implicit form of a proper cubic has been computed; it is
\* zero at the curve's point for t = 1/2 and nonzero at a point off the curve.
ImplicitWitness ==
    /\ op = "implicit_cubic"
    /\ points = <<Pt(0, 0), Pt(1, 0), Pt(1, 1), Pt(0, 1)>>
    /\ evaluate(points, Rat(1, 2)) = <<Rat(3, 4), Rat(1, 2)>>
    /\ eval3x2d(result, Rat(3, 4), Rat(1, 2)) = s_zero
    /\ eval3x2d(result, R(1), R(1)) # s_zero

\* Ten sample points: two polynomials of degree at most 9 that agree on them
\* are equal.
SubstPoints ==
    {R(-3), R(-2), R(-1), R(0), R(1), R(2), R(3), Rat(-1, 2), Rat(1, 2), Rat(3, 2)}

\* C3: the coefficient list c = p.subst(px, py) represents the composition:
\* for all t, sum_i c[i] * t^i = p.eval(px.eval(t), py.eval(t)).
SubstIsComposition ==
    op = "subst" =>
        \A x \in SubstPoints :
            eval_poly(result, x, 1) =
                eval3x2d(polys.p, eval3(polys.px, x), eval3(polys.py, x))

\* C3 witness: the polynomial of test_poly3x2d_subst has been composed with
\* two full cubics, and the result has a nonzero coefficient of degree 9.
SubstWitness ==
    /\ op = "subst"
    /\ polys.p = Poly3x2d(3, 2, 5, -5, -24, 3, 9, -16, -44, 1)
    /\ polys.px = Poly3(R(1), R(1), R(1), R(1))
    /\ polys.py = Poly3(R(4), R(-2), R(7), R(1))
    /\ result[10] # s_zero

\* C4: the items of intersect_cubic(a, b) are exactly the pairs
\* (r, evaluate(a, r)) for the roots r the root finder returned with
\* 0 <= r <= 1: roots 0 and 1 are kept, roots outside are dropped, none in
\* range is dropped, and the point is curve a evaluated at r.
IntersectKeepsRootsInRange ==
    op = "intersect_cubic" =>
        LET InRange(r) == r[1] >= 0 /\ r[1] <= r[2]
            kept == {j \in 1..Len(roots) : InRange(roots[j])}
        IN  /\ Len(result) = Cardinality(kept)
            /\ {result[i] : i \in 1..Len(result)} =
                   {<<roots[j], evaluate(points, roots[j])>> : j \in kept}

\* C4 witness: the root finder returned 0, 3/2 and 1 for two different
\* curves; the roots 0 and 1 were kept and 3/2 was dropped.
IntersectWitness ==
    /\ op = "intersect_cubic"
    /\ points # points_b
    /\ roots = <<R(0), Rat(3, 2), R(1)>>
    /\ Len(result) = 2
    /\ result[1] = <<R(0), get(points, 0)>>
    /\ result[2] = <<R(1), get(points, 3)>>

\* C5: parametric_cubic returns, per axis, constant = p0, linear = -3p0 + 3p1,
\* quadratic = 3p0 - 6p1 + 3p2, cubic = -p0 + 3p1 - 3p2 + p3, and
\* (poly_x.eval(t), poly_y.eval(t)) = evaluate(curve, t) for every t.
ParametricMatchesEvaluate ==
    op = "parametric_cubic" =>
        LET lin(c0, c1, c2, c3, ax) ==
                s_add(s_add(s_mul(R(c0), points[1][ax]), s_mul(R(c1), points[2][ax])),
                      s_add(s_mul(R(c2), points[3][ax]), s_mul(R(c3), points[4][ax])))
            axis(ax) == [k   |-> lin(1, 0, 0, 0, ax),
                         x   |-> lin(-3, 3, 0, 0, ax),
                         xx  |-> lin(3, -6, 3, 0, ax),
                         xxx |-> lin(-1, 3, -3, 1, ax)]
        IN  /\ result = <<axis(1), axis(2)>>
            /\ \A tt \in TVals :
                   <<eval3(result[1], tt), eval3(result[2], tt)>> = evaluate(points, tt)

\* C5 witness: a cubic whose two parametric polynomials both have degree 3.
ParametricWitness ==
    /\ op = "parametric_cubic"
    /\ points = <<Pt(0, 0), Pt(1, 0), Pt(0, 1), Pt(1, 1)>>
    /\ result[1].xxx = R(4)
    /\ result[2].xxx = R(-2)

\* C6: evaluate interpolates the end points: evaluate(curve, 0) = curve[0] and
\* evaluate(curve, 1) = curve[N-1]; a one-point curve evaluates to its point
\* for every t.
EvaluateInterpolatesEndpoints ==
    op = "evaluate" =>
        /\ t = R(0) => result = points[1]
        /\ t = R(1) => result = points[Len(points)]
        /\ Len(points) = 1 => result = points[1]

\* C6 witness: a six-point curve with distinct end points evaluated at t = 1.
EvaluateWitness ==
    /\ op = "evaluate"
    /\ t = R(1)
    /\ Len(points) = MaxCount
    /\ points[1] # points[MaxCount]
    /\ result = points[MaxCount]

\* C7: derive(curve) has N - 1 elements, element i is (p[i+1] - p[i]) * (N-1),
\* and for a quadratic curve evaluate(derive(curve), t) =
\* 2(1-t)(p1 - p0) + 2t(p2 - p1) for every t.
DeriveIsScaledDifferences ==
    op = "derive" =>
        LET N == Len(points)
        IN  /\ Len(result) = N - 1
            /\ \A i \in 1..(N - 1) :
                   result[i] = v_mul(p_sub(points[i + 1], points[i]), R(N - 1))
            /\ N = 3 =>
                   \A tt \in TVals :
                       evaluate(result, tt) =
                           p_add(v_mul(p_sub(points[2], points[1]),
                                       s_mul(R(2), s_sub(R(1), tt))),
                                 v_mul(p_sub(points[3], points[2]),
                                       s_mul(R(2), tt)))

\* C7 witness: the derivative of a quadratic curve with three distinct
\* consecutive points: two nonzero vectors.
DeriveWitness ==
    /\ op = "derive"
    /\ Len(points) = 3
    /\ points[1] # points[2]
    /\ points[2] # points[3]
    /\ Len(result) = 2
    /\ result[1] # <<s_zero, s_zero>>
    /\ result[2] # <<s_zero, s_zero>>

\* The length of the control polygon, summed from its last segment back.
RECURSIVE polyline_length(_, _)
polyline_length(c, i) ==
    IF i >= Len(c) THEN s_zero
    ELSE s_add(distance(c[i], c[i + 1]), polyline_length(c, i + 1))

\* The control points lie on one line in the order of their indices: all the
\* steps p[i+1] - p[i] are parallel and point the same way.
CollinearMonotone(c) ==
    LET d(i) == p_sub(c[i + 1], c[i])
        cross(u, v) == s_sub(s_mul(u[1], v[2]), s_mul(u[2], v[1]))
        dot(u, v) == s_add(s_mul(u[1], v[1]), s_mul(u[2], v[2]))
    IN  \A i, j \in 1..(Len(c) - 1) :
            cross(d(i), d(j)) = s_zero /\ s_le(s_zero, dot(d(i), d(j)))

\* C8: hull_arclen_bounds returns lower = distance(p[0], p[N-1]) and
\* upper = the sum of distance(p[i], p[i+1]); lower <= upper always, and
\* lower = upper when the control points are collinear and in order.
HullBoundsOrdered ==
    op = "hull_arclen_bounds" =>
        /\ result[1] = distance(points[1], points[Len(points)])
        /\ result[2] = polyline_length(points, 1)
        /\ s_le(result[1], result[2])
        /\ CollinearMonotone(points) => result[1] = result[2]

\* C8 witness: three distinct collinear points in order: both bounds are 10.
HullBoundsWitness ==
    /\ op = "hull_arclen_bounds"
    /\ points = <<Pt(0, 0), Pt(3, 4), Pt(6, 8)>>
    /\ CollinearMonotone(points)
    /\ result = <<R(10), R(10)>>

\* C9: index access is bounds-checked for every length 0..6: get(i) and
\* set(i, v) with i >= N panic and never complete, and for i < N set(i, v)
\* makes get(i) return v and leaves every other element unchanged.
IndexAccessBoundsChecked ==
    LET N == Len(result.before)
    IN  /\ (result.call \in {"get", "set"} /\ result.i >= N) => result.panicked
        /\ (result.call = "get" /\ result.i < N) =>
               /\ ~result.panicked
               /\ result.value = result.before[result.i + 1]
        /\ (result.call = "set" /\ result.i < N) =>
               /\ ~result.panicked
               /\ ~get_panics(points, result.i)
               /\ get(points, result.i) = result.v
               /\ Len(points) = N
               /\ \A j \in 1..N : j # result.i + 1 => points[j] = result.before[j]

\* The part of C9 that holds: on a container of N >= 1 elements every access
\* is bounds-checked, and get on the empty container panics.
IndexAccessBoundsCheckedNonEmpty ==
    (result.call = "get" \/ Len(result.before) >= 1) => IndexAccessBoundsChecked

\* C10: the list subst produces has index = degree and, for two cubic
\* inputs, always exactly 10 entries, whichever coefficients are zero: entry 0
\* is the constant term p(px.k, py.k), entry 9 the coefficient of t^9; and
\* as_slice yields [k, x, xx, xxx], the coefficients in ascending degree.
SubstLengthAndOrder ==
    op = "subst" =>
        LET a == polys.px.xxx
            b == polys.py.xxx
            m3(c, u, v, w) == s_mul(s_mul(s_mul(c, u), v), w)
        IN  /\ Len(result) = 10
            /\ result[1] = eval3x2d(polys.p, polys.px.k, polys.py.k)
            /\ result[10] =
                   s_add(s_add(m3(polys.p.xxx, a, a, a), m3(polys.p.xxy, a, a, b)),
                         s_add(m3(polys.p.xyy, a, b, b), m3(polys.p.yyy, b, b, b)))
            /\ as_slice(polys.px) = <<polys.px.k, polys.px.x, polys.px.xx, polys.px.xxx>>
            /\ \A x \in TVals :
                   /\ eval_poly(as_slice(polys.px), x, 1) = eval3(polys.px, x)
                   /\ eval_poly(as_slice(polys.py), x, 1) = eval3(polys.py, x)

\* C10 witness: a constant bivariate polynomial and substituted polynomials
\* without a cubic term still give 10 entries, the last nine of them zero.
SubstLengthWitness ==
    /\ op = "subst"
    /\ polys.p = Poly3x2d(1, 0, 0, 0, 0, 0, 0, 0, 0, 0)
    /\ polys.px = Poly3(R(1), R(1), R(0), R(0))
    /\ polys.py = Poly3(R(0), R(0), R(0), R(0))
    /\ Len(result) = 10
    /\ result[1] = R(1)
    /\ \A i \in 2..10 : result[i] = s_zero

\* C11: the polynomial g handed to the root finder by intersect_cubic(a, b)
\* is the implicit form of b composed with the parametric form of a: for all
\* t, g(t) = f_b(q.x, q.y) with f_b = implicit_cubic(b) and q = evaluate(a, t),
\* so g(t) = 0 exactly when the point of a at t lies on the zero set of f_b.
IntersectPolynomialIsImplicitBOnA ==
    op = "intersect_cubic" =>
        LET f_b == implicit_cubic(points_b)
        IN  \A x \in SubstPoints :
                LET q == evaluate(points, x)
                    g == eval_poly(polys, x, 1)
                IN  /\ g = eval3x2d(f_b, q[1], q[2])
                    /\ (g = s_zero) <=> (eval3x2d(f_b, q[1], q[2]) = s_zero)

\* C11 witness: two cubics that are not mirror images of each other; g has
\* ten coefficients and at t = 0 it is the nonzero value of f_b at the first
\* control point of a, which lies off b.
IntersectPolynomialWitness ==
    /\ op = "intersect_cubic"
    /\ points = <<Pt(0, 0), Pt(1, 2), Pt(2, 2), Pt(3, 0)>>
    /\ points_b = <<Pt(0, 2), Pt(2, 0), Pt(1, 0), Pt(3, 2)>>
    /\ Len(polys) = 10
    /\ eval_poly(polys, R(0), 1) # s_zero
    /\ eval_poly(polys, R(0), 1) = eval3x2d(implicit_cubic(points_b), R(0), R(0))

\* The monomials x^i y^j of total degree at most 3 and the field that holds
\* the coefficient of each.
Monomials == {<<i, j>> : i \in 0..3, j \in 0..3} \ {m \in (0..3) \X (0..3) : m[1] + m[2] > 3}

FieldOf(i, j) ==
    CASE i = 0 /\ j = 0 -> "k"
      [] i = 1 /\ j = 0 -> "x"
      [] i = 0 /\ j = 1 -> "y"
      [] i = 2 /\ j = 0 -> "xx"
      [] i = 1 /\ j = 1 -> "xy"
      [] i = 0 /\ j = 2 -> "yy"
      [] i = 2 /\ j = 1 -> "xxy"
      [] i = 1 /\ j = 2 -> "xyy"
      [] i = 3 /\ j = 0 -> "xxx"
      [] i = 0 /\ j = 3 -> "yyy"

\* The coefficient of x^i y^j in p: zero when the type of p has no such field.
coef(p, i, j) == IF FieldOf(i, j) \in DOMAIN p THEN p[FieldOf(i, j)] ELSE s_zero

\* The convolution sum for x^i y^j: the sum over (i1, j1) <= (i, j) of
\* a[i1, j1] * b[i - i1, j - j1]; n counts the pairs (i1, j1) row by row.
RECURSIVE conv(_, _, _, _, _)
conv(a, b, i, j, n) ==
    IF n >= (i + 1) * (j + 1) THEN s_zero
    ELSE LET i1 == n \div (j + 1)
             j1 == n % (j + 1)
         IN  s_add(s_mul(coef(a, i1, j1), coef(b, i - i1, j - j1)),
                   conv(a, b, i, j, n + 1))

RECURSIVE s_pow(_, _)
s_pow(x, n) == IF n = 0 THEN R(1) ELSE s_mul(x, s_pow(x, n - 1))

\* The value of p at (x, y): the sum of coef * x^i * y^j over the monomials
\* with i >= i0 (and j >= j0 when i = i0).
RECURSIVE eval_xy(_, _, _, _, _)
eval_xy(p, x, y, i0, j0) ==
    IF i0 > 3 THEN s_zero
    ELSE IF i0 + j0 > 3 THEN eval_xy(p, x, y, i0 + 1, 0)
    ELSE s_add(s_mul(coef(p, i0, j0), s_mul(s_pow(x, i0), s_pow(y, j0))),
               eval_xy(p, x, y, i0, j0 + 1))

\* Points (x, y) at which products are compared with their operands.
EvalPoints ==
    {<<R(0), R(0)>>, <<R(2), R(-3)>>, <<Rat(1, 2), R(5)>>, <<R(-1), Rat(3, 2)>>,
     <<Rat(-2, 3), Rat(1, 3)>>}

\* C12: bivariate multiplication is the polynomial product: the value of
\* a * b (linear times linear) and of a * q (linear times quadratic) at any
\* (x, y) is the product of the operands' values, the result has exactly the
\* fields of the degree-2 (degree-3) type and each holds the convolution sum of
\* the operand coefficients; sums and differences are coefficient-wise.
MultiplicationIsPolynomialProduct ==
    LET lhs == result.lhs
        rhs == result.rhs
        out == result.out
        IsProduct(deg) ==
            /\ DOMAIN out = {FieldOf(m[1], m[2]) : m \in {n \in Monomials : n[1] + n[2] <= deg}}
            /\ \A m \in Monomials : coef(out, m[1], m[2]) = conv(lhs, rhs, m[1], m[2], 0)
            /\ \A q \in EvalPoints :
                   eval_xy(out, q[1], q[2], 0, 0) =
                       s_mul(eval_xy(lhs, q[1], q[2], 0, 0), eval_xy(rhs, q[1], q[2], 0, 0))
        IsFieldwise(f(_, _)) ==
            /\ DOMAIN out = DOMAIN lhs
            /\ \A c \in DOMAIN out : out[c] = f(lhs[c], rhs[c])
    IN  /\ op = "mul11" => IsProduct(2)
        /\ op = "mul12" =>
               /\ IsProduct(3)
               /\ \A q \in EvalPoints :
                      eval3x2d(out, q[1], q[2]) =
                          s_mul(eval_xy(lhs, q[1], q[2], 0, 0), eval_xy(rhs, q[1], q[2], 0, 0))
        /\ op \in {"add1", "add2", "add3"} => IsFieldwise(s_add)
        /\ op \in {"sub1", "sub2", "sub3"} => IsFieldwise(s_sub)

\* C12 witness: a linear polynomial with three nonzero coefficients has been
\* multiplied by a quadratic with six; the xy coefficient of the product is
\* the sum of three products and the xxy coefficient the sum of two.
MultiplicationWitness ==
    /\ op = "mul12"
    /\ result.lhs = Poly1x2d(R(1), R(-1), R(1))
    /\ result.rhs = Poly2x2d(2, -3, 5, 7, -1, 4)
    /\ result.out.xy = R(-1)
    /\ result.out.xxy = R(-8)
    /\ result.out.yyy = R(4)

\* C13: in subdivide on a curve of N >= 1 points the recursion runs through
\* the depths k = 0..N-1; level k has N - k points; depth k writes the first
\* point of level k to left[k] and the last point of level k to right[N-1-k].
\* Level k is the De Casteljau level of the curve, so its first point is the
\* value at t of the curve's first k + 1 points and its last point the value
\* at t of the curve's last k + 1 points.  When the recursion has returned,
\* every slot of left and right has been written exactly once,
\* left[0] = curve[0], right[N-1] = curve[N-1] and left[N-1] = right[0].
DeCasteljauWritesDepthwise ==
    LET N == count(points)
        k == result.calls
        left == result.a
        right == result.b
    IN  /\ op \in {"de_casteljau", "subdivided"} =>
               /\ k \in 0..N
               /\ count(left) = N /\ count(right) = N
               /\ \A j \in 0..(N - 1) :
                      /\ result.writes_a[j + 1] = IF j < k THEN 1 ELSE 0
                      /\ result.writes_b[N - j] = IF j < k THEN 1 ELSE 0
                      /\ get(left, j) =
                             IF j < k THEN evaluate(SubSeq(points, 1, j + 1), t)
                             ELSE get(points, j)
                      /\ get(right, N - 1 - j) =
                             IF j < k THEN evaluate(SubSeq(points, N - j, N), t)
                             ELSE get(points, N - 1 - j)
        /\ op = "de_casteljau" =>
               /\ k < N
               /\ count(result.level) = N - k
               /\ get(result.level, 0) = evaluate(SubSeq(points, 1, k + 1), t)
               /\ get(result.level, N - k - 1) = evaluate(SubSeq(points, N - k, N), t)
        /\ op = "subdivided" =>
               /\ k = N
               /\ get(left, 0) = get(points, 0)
               /\ get(right, N - 1) = get(points, N - 1)
               /\ get(left, N - 1) = get(right, 0)
               /\ <<left, right>> = subdivide(points, t)

\* C13 witness: the recursion on a six-point curve has returned after six
\* calls that wrote each slot once, and both output curves differ from the
\* input and from each other.
DeCasteljauWitness ==
    /\ op = "subdivided"
    /\ count(points) = MaxCount
    /\ t = Rat(1, 2)
    /\ result.calls = MaxCount
    /\ \A j \in 1..MaxCount : result.writes_a[j] = 1 /\ result.writes_b[j] = 1
    /\ result.a # points
    /\ result.b # points
    /\ result.a # result.b

\* Level k of De Casteljau's construction on c: k rounds of interpolation.
RECURSIVE level(_, _, _)
level(c, tt, k) ==
    IF k = 0 THEN c ELSE level(lerp_loop(c, tt, reduced(c), 0), tt, k - 1)

\* Arrays of n elements that hold, in every slot, a value that is off the
\* line through the points of ValuePoints: no such value is an element of a
\* level or of a derivative, so a slot that was left as it was shows.
JunkFills(n) == {[i \in 1..n |-> q] : q \in {<<R(-7), R(9)>>, <<R(11), R(-5)>>}}

\* evaluate, subdivide, derive and hull_arclen_bounds leave the heap as they
\* found it, and return what they return on a curve held by value.
InputsUnchanged ==
    /\ op \in {"evaluate", "subdivide", "derive", "hull_arclen_bounds"} =>
           points = result.before
    /\ op = "evaluate" => result.value = evaluate(points[1], t)
    /\ op = "subdivide" => result.value = subdivide(points[1], t)
    /\ op = "derive" => result.value = derive(points[1])

\* A curve made by clone() or reduced() has a place of its own, and a set
\* on it or on its parent leaves the other one as it was.
CopiesIndependent ==
    /\ op \in {"clone", "reduced"} =>
           /\ result.child # result.parent
           /\ points[result.parent] = result.before[result.parent]
    /\ op = "clone" => points[result.child] = points[result.parent]
    /\ op = "set" =>
           LET written == result.child
               other == result.parent
           IN  /\ written # other
               /\ points[other] = result.before[other]
               /\ count(points[written]) = count(result.before[written])

\* The array reduced() returns is overwritten, slot by slot, by evaluate,
\* subdivide and derive: whatever it holds, each level and the derivative
\* come out the same.
ReducedContentsNeverInfluence ==
    LET l == points[1]
        N == count(l)
    IN  /\ op \in {"evaluate", "subdivide"} =>
               \A k \in 0..(N - 2) :
                   LET this == level(l, t, k)
                       next == level(l, t, k + 1)
                   IN  \A junk \in JunkFills(N - 1 - k) :
                           lerp_loop(this, t, junk, 0) = next
        /\ op = "evaluate" => result.value = get(level(l, t, N - 1), 0)
        /\ op = "derive" =>
               \A junk \in JunkFills(N - 1) :
                   derive_loop(l, R(N - 1), junk, 0) = result.value

====
